---- MODULE Spec2Model ----
(***************************************************************************)
(* SumStack (WangLucas2013/Sum-Game): the grid state machine of            *)
(* src/src/App.tsx.  One action per event the component handles (mode      *)
(* button, block click, interval tick, pause button, menu button, the      *)
(* overshoot timeout); every action includes the run of the sum-check      *)
(* effect (App.tsx 152-199) and of the timer effect (App.tsx 202-220)      *)
(* that React performs after the handler's state updates are committed.    *)
(* GravSpec applies applyGravity (App.tsx 129-145) to arbitrary grids.     *)
(* FairSpec is Spec with the timers of the browser firing.                 *)
(***************************************************************************)
EXTENDS Integers, Sequences, FiniteSets, TLC

\* ---------------------------------------------------------------- constants
GRID_ROWS == 10
GRID_COLS == 6
INITIAL_ROWS == 4
TIME_LIMIT == 10
TARGET_MIN == 10
TARGET_MAX == 25
VALUE_MIN == 1
VALUE_MAX == 9
SCORE_PER_BLOCK == 10

\* ------------------------------------------------------------------- bounds
\* Games started (initGame calls) over a whole run.
MaxGames == 2
\* Rows are injected in the first RowGames games only.
RowGames == 1
\* Value streams Math.random may follow in a game (see getRandomValue).
NumSeeds == 2
\* Number of distinct targets getRandomTarget may draw (from TARGET_MIN up).
NumTargets == 2
\* The player never holds more than MaxSel blocks selected,
MaxSel == 3
\* and in time mode clicks only while timeLeft <= ClickWindow (handleBlockClick
\* neither reads nor writes timeLeft), while score < MaxTimedScore, and while
\* the grid holds at most EarlyRows rows more than at the start or at most
\* LateRows rows fewer than it can hold.
ClickWindow == 1
MaxTimedScore == 20
EarlyRows == 0
LateRows == 0
\* Overshoot timeouts that may be pending at once.
MaxPending == 2
\* Events handled while an overshoot timeout is pending (its 400 ms).
MaxWindowEvents == 2
\* applyGravity on arbitrary grids: column c holds the rows of a set P of rows
\* that are >= c * k, moved by c * k rows (modulo GRID_ROWS), for k up to
\* GravShift; applyGravity is applied MaxApply times in a row.
GravShift == 1
MaxApply == 2

VARIABLES
  mode,         \* "none" (null), "classic", "time"        App.tsx 37
  grid,         \* row -> col -> block or Null              App.tsx 38
  score,        \*                                          App.tsx 39
  target,       \*                                          App.tsx 40
  selectedIds,  \* sequence of ids                          App.tsx 41
  isGameOver,   \*                                          App.tsx 42
  timeLeft,     \*                                          App.tsx 43
  isPaused,     \*                                          App.tsx 44
  intervals,    \* number of setInterval timers not yet cleared; the last
                \* one created is the one in timerRef     App.tsx 47, 202-220
  shakes,       \* pending overshoot timeouts, oldest first, each with the
                \* grid and score seen when it was scheduled  App.tsx 194-197
  nextId,       \* the next id generateId returns           App.tsx 31
  rng,          \* the value stream Math.random follows in this game
  games,        \* initGame calls so far (observer counter)
  run,          \* ticks since timeLeft was last set to TIME_LIMIT, the
                \* addRow calls they made, and the ticks since initGame
                \* (observer record)
  ev            \* what the last event other than the pause button did
                \* (observer record)

vars == <<mode, grid, score, target, selectedIds, isGameOver, timeLeft,
          isPaused, intervals, shakes, nextId, rng, games, run, ev>>

Rows == 0 .. (GRID_ROWS - 1)
Cols == 0 .. (GRID_COLS - 1)

\* The empty cell (null in the source).
Null == [id |-> 0, value |-> 0, row |-> 0 - 1, col |-> 0 - 1, isSelected |-> FALSE]

\* types.ts BlockData as created by initGame and addRow.
Block(i, v, r, c) == [id |-> i, value |-> v, row |-> r, col |-> c, isSelected |-> FALSE]

\* useState([]) : the grid before the first initGame has no rows.
EmptyGrid == [r \in {} |-> [c \in Cols |-> Null]]

\* Array.from({length: GRID_ROWS}, () => Array.from({length: GRID_COLS}, () => null))
NullGrid == [r \in Rows |-> [c \in Cols |-> Null]]

\* ------------------------------------------------------------ random inputs
Seeds == 0 .. (NumSeeds - 1)

\* getRandomValue: an integer of VALUE_MIN..VALUE_MAX.  The value of the block
\* a fill creates in column c when Math.random follows stream s: the streams
\* enumerate a few of its outcomes (the middle value, raised by s in even
\* columns).
MidValue == (VALUE_MIN + VALUE_MAX) \div 2
getRandomValue(s, c) == MidValue + (IF c % 2 = 0 THEN s ELSE 0)

\* getRandomTarget: an integer of TARGET_MIN..TARGET_MAX; the draws enumerated.
getRandomTarget ==
  { t \in TARGET_MIN .. TARGET_MAX :
      \E k \in 0 .. (NumTargets - 1) : t = TARGET_MIN + k * MidValue }

\* generateId: the k-th id handed out since nid (ids are taken to be distinct).
generateId(nid, k) == nid + k

\* ------------------------------------------------------------------ helpers
\* The blocks of a grid, as a set of records.
BlocksOf(g) == { g[r][c] : r \in DOMAIN g, c \in Cols } \ {Null}

IdsOf(g) == { b.id : b \in BlocksOf(g) }

\* prev.includes(id)
Includes(sel, id) == \E i \in 1 .. Len(sel) : sel[i] = id

\* prev.filter(i => i !== id)
RECURSIVE Without(_, _)
Without(sel, id) ==
  IF sel = <<>> THEN <<>>
  ELSE IF Head(sel) = id THEN Without(Tail(sel), id)
       ELSE <<Head(sel)>> \o Without(Tail(sel), id)

\* The number of rows from the topmost occupied one down to the bottom.
Level(g) ==
  LET occ == { r \in DOMAIN g : \E c \in Cols : g[r][c] # Null }
  IN IF occ = {} THEN 0 ELSE GRID_ROWS - (CHOOSE r \in occ : \A q \in occ : r <= q)

\* The updater as it would be without the prev.includes(id) branch.
ToggleIds_AppendOnly(sel, id) == Append(sel, id)

\* The updater handleBlockClick passes to setSelectedIds.
ToggleIds(sel, id) == IF Includes(sel, id) THEN Without(sel, id) ELSE Append(sel, id)

\* selectedBlocks of the sum-check effect: the blocks of the grid whose id is selected.
SelectedBlocks(g, sel) == { b \in BlocksOf(g) : Includes(sel, b.id) }

RECURSIVE SumValues(_)
SumValues(bs) ==
  IF bs = {} THEN 0
  ELSE LET b == CHOOSE x \in bs : TRUE IN b.value + SumValues(bs \ {b})

\* The initial fill as it would be if its loop stopped one row early
\* (r > GRID_ROWS - INITIAL_ROWS).
InitGrid_ShortFill(nid, s) ==
  [r \in Rows |-> [c \in Cols |->
     IF r > GRID_ROWS - INITIAL_ROWS
     THEN Block(generateId(nid, (GRID_ROWS - 1 - r) * GRID_COLS + c),
                getRandomValue(s, c), r, c)
     ELSE Null]]

\* ---------------------------------------------------------------- initGame
InitGrid(nid, s) ==
  [r \in Rows |-> [c \in Cols |->
     IF r >= GRID_ROWS - INITIAL_ROWS
     THEN Block(generateId(nid, (GRID_ROWS - 1 - r) * GRID_COLS + c),
                getRandomValue(s, c), r, c)
     ELSE Null]]

\* ------------------------------------------------------------------ addRow
\* The test as it would be if it looked at the second row from the top.
TopRowOccupied_SecondRow(g) == \E c \in Cols : g[1][c] # Null

\* prevGrid[0].some(cell => cell !== null)
TopRowOccupied(g) == \E c \in Cols : g[0][c] # Null

\* addRow as it would be if the moved blocks kept their row field.
AddRow_StaleRow(g, nid, s) ==
  IF TopRowOccupied(g)
  THEN [grid |-> g, over |-> TRUE, nextId |-> nid]
  ELSE [grid |-> [r \in Rows |-> [c \in Cols |->
                    IF r < GRID_ROWS - 1
                    THEN g[r + 1][c]
                    ELSE Block(generateId(nid, c), getRandomValue(s, c),
                               GRID_ROWS - 1, c)]],
        over |-> FALSE,
        nextId |-> nid + GRID_COLS]

\* addRow as it would be if it shifted and filled before looking at the top row.
AddRow_ShiftFirst(g, nid, s) ==
  [grid |-> [r \in Rows |-> [c \in Cols |->
               IF r < GRID_ROWS - 1
               THEN IF g[r + 1][c] # Null
                    THEN [g[r + 1][c] EXCEPT !.row = r]
                    ELSE Null
               ELSE Block(generateId(nid, c), getRandomValue(s, c),
                          GRID_ROWS - 1, c)]],
   over |-> TopRowOccupied(g),
   nextId |-> nid + GRID_COLS]

\* addRow as it would be if the shift loop stopped one row early.
AddRow_ShortShift(g, nid, s) ==
  IF TopRowOccupied(g)
  THEN [grid |-> g, over |-> TRUE, nextId |-> nid]
  ELSE [grid |-> [r \in Rows |-> [c \in Cols |->
                    IF r < GRID_ROWS - 2
                    THEN IF g[r + 1][c] # Null
                         THEN [g[r + 1][c] EXCEPT !.row = r]
                         ELSE Null
                    ELSE IF r < GRID_ROWS - 1 THEN g[r][c]
                    ELSE Block(generateId(nid, c), getRandomValue(s, c),
                               GRID_ROWS - 1, c)]],
        over |-> FALSE,
        nextId |-> nid + GRID_COLS]

\* The setGrid updater of addRow: [grid, over (setIsGameOver(true) was called),
\* nextId].
AddRow(g, nid, s) ==
  IF TopRowOccupied(g)
  THEN [grid |-> g, over |-> TRUE, nextId |-> nid]
  ELSE [grid |-> [r \in Rows |-> [c \in Cols |->
                    IF r < GRID_ROWS - 1
                    THEN IF g[r + 1][c] # Null
                         THEN [g[r + 1][c] EXCEPT !.row = r]
                         ELSE Null
                    ELSE Block(generateId(nid, c),
                               getRandomValue(s, c),
                               GRID_ROWS - 1, c)]],
        over |-> FALSE,
        nextId |-> nid + GRID_COLS]

\* ------------------------------------------------------------ applyGravity
\* Where the scan of column c from the bottom row stops: the largest r >= 1
\* with an empty cell at r and a block at r - 1 (0 when there is none).
FirstGap(g, c) ==
  LET hits == { r \in 1 .. (GRID_ROWS - 1) : g[r][c] = Null /\ g[r - 1][c] # Null }
  IN IF hits = {} THEN 0 ELSE CHOOSE r \in hits : \A q \in hits : q <= r

\* The inner loop as it would be without the restart (r = GRID_ROWS): one scan
\* from the bottom, in which a block moves down one cell when a cell below
\* it in the column is empty.
SettleColumn_NoRestart(g, c, changed) ==
  LET gapBelow(r) == \E q \in (r + 1) .. (GRID_ROWS - 1) : g[q][c] = Null
  IN [newGrid |-> [r \in Rows |-> [k \in Cols |->
        IF k # c THEN g[r][k]
        ELSE IF r > 0 /\ g[r - 1][c] # Null /\ gapBelow(r - 1)
             THEN [g[r - 1][c] EXCEPT !.row = r]
        ELSE IF g[r][c] # Null /\ ~gapBelow(r) THEN g[r][c]
        ELSE Null]],
      changed |-> changed \/ \E r \in Rows : g[r][c] # Null /\ gapBelow(r)]

\* The inner loop as it would be if a moved block kept its row field.
RECURSIVE SettleColumn_StaleRow(_, _, _)
SettleColumn_StaleRow(g, c, changed) ==
  LET r == FirstGap(g, c)
  IN IF r = 0 THEN [newGrid |-> g, changed |-> changed]
     ELSE SettleColumn_StaleRow([g EXCEPT ![r][c] = g[r - 1][c],
                                          ![r - 1][c] = Null],
                                c, TRUE)

\* The inner loop on column c: move the block above the gap down by one row,
\* set changed, and scan again from the bottom (r = GRID_ROWS; r--), until a
\* scan reaches row 1 without a move.
RECURSIVE SettleColumn(_, _, _)
SettleColumn(g, c, changed) ==
  LET r == FirstGap(g, c)
  IN IF r = 0 THEN [newGrid |-> g, changed |-> changed]
     ELSE SettleColumn([g EXCEPT ![r][c] = [g[r - 1][c] EXCEPT !.row = r],
                                 ![r - 1][c] = Null],
                       c, TRUE)

\* The outer loop: columns 0 .. GRID_COLS - 1 in turn.
RECURSIVE GravityLoop(_, _, _)
GravityLoop(g, c, changed) ==
  IF c >= GRID_COLS THEN [newGrid |-> g, changed |-> changed]
  ELSE LET col == SettleColumn(g, c, changed)
       IN GravityLoop(col.newGrid, c + 1, col.changed)

applyGravity(currentGrid) == GravityLoop(currentGrid, 0, FALSE)

\* prevGrid.map(row => row.map(block => block && selectedIds.includes(block.id) ? null : block))
RemoveSelected(g, sel) ==
  [r \in DOMAIN g |-> [c \in Cols |->
     IF g[r][c] # Null /\ Includes(sel, g[r][c].id) THEN Null ELSE g[r][c]]]

\* ------------------------------------------------------- the sum-check effect
\* The state the effect reads and the updates it queues, as one record.
Snapshot ==
  [mode |-> mode, grid |-> grid, score |-> score, target |-> target,
   selectedIds |-> selectedIds, isGameOver |-> isGameOver, timeLeft |-> timeLeft,
   shakes |-> shakes, nextId |-> nextId, rng |-> rng, game |-> games,
   outcome |-> "none", n |-> 0, inject |-> "none"]

\* The match as it would be if it scored a flat SCORE_PER_BLOCK.
OnMatch_FlatScore(st, blocks, t, s) ==
  LET g1 == applyGravity(RemoveSelected(st.grid, st.selectedIds)).newGrid
      ar == IF st.mode = "classic"
            THEN AddRow(g1, st.nextId, s)
            ELSE [grid |-> g1, over |-> FALSE, nextId |-> st.nextId]
  IN [st EXCEPT !.score = @ + SCORE_PER_BLOCK,
                !.target = t,
                !.grid = ar.grid,
                !.selectedIds = <<>>,
                !.isGameOver = @ \/ ar.over,
                !.nextId = ar.nextId,
                !.outcome = "match",
                !.n = Cardinality(blocks),
                !.inject = IF st.mode # "classic" THEN "none"
                           ELSE IF ar.over THEN "overflow" ELSE "ok"]

\* The match as it would be if it removed the blocks without applyGravity.
OnMatch_NoGravity(st, blocks, t, s) ==
  LET g1 == RemoveSelected(st.grid, st.selectedIds)
      ar == IF st.mode = "classic"
            THEN AddRow(g1, st.nextId, s)
            ELSE [grid |-> g1, over |-> FALSE, nextId |-> st.nextId]
  IN [st EXCEPT !.score = @ + Cardinality(blocks) * SCORE_PER_BLOCK,
                !.target = t,
                !.grid = ar.grid,
                !.selectedIds = <<>>,
                !.isGameOver = @ \/ ar.over,
                !.nextId = ar.nextId,
                !.outcome = "match",
                !.n = Cardinality(blocks),
                !.inject = IF st.mode # "classic" THEN "none"
                           ELSE IF ar.over THEN "overflow" ELSE "ok"]

\* The match as it would be without setSelectedIds([]).
OnMatch_KeepSelection(st, blocks, t, s) ==
  LET g1 == applyGravity(RemoveSelected(st.grid, st.selectedIds)).newGrid
      ar == IF st.mode = "classic"
            THEN AddRow(g1, st.nextId, s)
            ELSE [grid |-> g1, over |-> FALSE, nextId |-> st.nextId]
  IN [st EXCEPT !.score = @ + Cardinality(blocks) * SCORE_PER_BLOCK,
                !.target = t,
                !.grid = ar.grid,
                !.isGameOver = @ \/ ar.over,
                !.nextId = ar.nextId,
                !.outcome = "match",
                !.n = Cardinality(blocks),
                !.inject = IF st.mode # "classic" THEN "none"
                           ELSE IF ar.over THEN "overflow" ELSE "ok"]

\* The match as it would be if it never called addRow.
OnMatch_NoInject(st, blocks, t, s) ==
  [st EXCEPT !.score = @ + Cardinality(blocks) * SCORE_PER_BLOCK,
             !.target = t,
             !.grid = applyGravity(RemoveSelected(st.grid, st.selectedIds)).newGrid,
             !.selectedIds = <<>>,
             !.outcome = "match",
             !.n = Cardinality(blocks),
             !.inject = "none"]

\* sum === target: score, target, grid (remove, gravity), selection, and in
\* classic mode addRow, all queued in the same run of the effect.  t is the
\* target drawn, s the seed of the row addRow may create.
OnMatch(st, blocks, t, s) ==
  LET g1 == applyGravity(RemoveSelected(st.grid, st.selectedIds)).newGrid
      ar == IF st.mode = "classic"
            THEN AddRow(g1, st.nextId, s)
            ELSE [grid |-> g1, over |-> FALSE, nextId |-> st.nextId]
  IN [st EXCEPT !.score = @ + Cardinality(blocks) * SCORE_PER_BLOCK,
                !.target = t,
                !.grid = ar.grid,
                !.selectedIds = <<>>,
                !.isGameOver = @ \/ ar.over,
                !.nextId = ar.nextId,
                !.outcome = "match",
                !.n = Cardinality(blocks),
                !.inject = IF st.mode # "classic" THEN "none"
                           ELSE IF ar.over THEN "overflow" ELSE "ok"]

\* The overshoot branch as it would be if it cleared at once, with no timeout.
OnOvershoot_NoDelay(st) ==
  [st EXCEPT !.selectedIds = <<>>, !.outcome = "overshoot"]

\* sum > target: setTimeout(() => setSelectedIds([]), 400); nothing cancels it.
OnOvershoot(st) ==
  [st EXCEPT !.shakes = Append(@, [grid |-> st.grid, score |-> st.score,
                                   game |-> st.game, age |-> 0]),
             !.outcome = "overshoot"]

\* The effect as it would be if it tested sum !== target for the overshoot.
Evaluate_NotEqual(st, t, s) ==
  LET blocks == SelectedBlocks(st.grid, st.selectedIds)
      sum == SumValues(blocks)
  IN IF sum = 0 THEN [st EXCEPT !.outcome = "zero"]
     ELSE IF sum = st.target THEN OnMatch(st, blocks, t, s)
     ELSE OnOvershoot(st)

\* One run of the effect on the committed state st.  After a match the effect
\* runs once more on the cleared selection, finds sum = 0 and returns.
Evaluate(st, t, s) ==
  LET blocks == SelectedBlocks(st.grid, st.selectedIds)
      sum == SumValues(blocks)
  IN IF sum = 0 THEN [st EXCEPT !.outcome = "zero"]
     ELSE IF sum = st.target THEN OnMatch(st, blocks, t, s)
     ELSE IF sum > st.target THEN OnOvershoot(st)
     ELSE [st EXCEPT !.outcome = "partial"]

\* The targets the effect may draw on st: getRandomTarget is called on a match
\* only.
Draws(st) ==
  IF SumValues(SelectedBlocks(st.grid, st.selectedIds)) = st.target /\ st.target # 0
  THEN getRandomTarget ELSE {st.target}

\* The condition as it would be without the isPaused test.
TimerCondition_IgnorePause(m, over, paused) == m = "time" /\ ~over

\* The condition under which the timer effect calls setInterval.
TimerCondition(m, over, paused) == m = "time" /\ ~over /\ ~paused

\* The timer effect as it would be if it never cleared an interval.
TimerEffect_NeverClear(n, rerun, cond) ==
  IF rerun /\ cond THEN n + 1 ELSE n

\* The timer effect on n live intervals.  It runs when one of its dependencies
\* (mode, isGameOver, isPaused; addRow changes with mode) changed: first the
\* cleanup of the previous run, clearInterval(timerRef.current), which clears
\* the last interval created; then setInterval when the condition holds, and
\* clearInterval(timerRef.current) again when it does not.
TimerEffect(n, rerun, cond) ==
  IF ~rerun THEN n
  ELSE LET cleaned == IF n > 0 THEN n - 1 ELSE 0
       IN IF cond THEN cleaned + 1 ELSE cleaned

\* The timeouts that were pending before the event have seen one more event.
Aged(after, before) ==
  [i \in 1 .. Len(after) |->
     IF i <= before THEN [after[i] EXCEPT !.age = @ + 1] ELSE after[i]]

\* Commit a record: the state variables the effect and the handler share.
\* The record is bound once (st), as is the result of addRow in Tick.
Commit(rec, paused, kind, id) ==
  \E st \in {rec} :
    /\ (kind # "init" /\ st.nextId # nextId) => games <= RowGames
    /\ Len(st.shakes) <= MaxPending
    /\ kind # "clear" => \A i \in 1 .. Len(shakes) : shakes[i].age < MaxWindowEvents
    /\ mode' = st.mode
    /\ grid' = st.grid
    /\ score' = st.score
    /\ target' = st.target
    /\ selectedIds' = st.selectedIds
    /\ isGameOver' = st.isGameOver
    /\ timeLeft' = st.timeLeft
    /\ shakes' = IF kind = "clear" THEN st.shakes ELSE Aged(st.shakes, Len(shakes))
    /\ games' = st.game
    /\ run' = IF kind = "init" THEN [ticks |-> 0, calls |-> 0, total |-> 0]
              ELSE IF kind # "tick" THEN run
              ELSE IF st.inject # "none"
              THEN [ticks |-> run.ticks + 1, calls |-> run.calls + 1,
                    total |-> run.total + 1]
              ELSE IF run.ticks >= TIME_LIMIT
              THEN [ticks |-> 1, calls |-> 0, total |-> run.total + 1]
              ELSE [run EXCEPT !.ticks = @ + 1, !.total = @ + 1]
    /\ nextId' = st.nextId
    /\ rng' = st.rng
    /\ isPaused' = paused
    /\ intervals' = TimerEffect(intervals,
                              <<st.mode, st.isGameOver, paused>> # <<mode, isGameOver, isPaused>>,
                              TimerCondition(st.mode, st.isGameOver, paused))
    /\ ev' = IF kind = "pause" THEN ev
             ELSE [kind |-> kind, id |-> id, outcome |-> st.outcome, n |-> st.n,
                   inject |-> st.inject]

\* ------------------------------------------------------------------ actions
\* useState initial values: the menu, before any game.
Init ==
  /\ mode = "none"
  /\ grid = EmptyGrid
  /\ score = 0
  /\ target = 0
  /\ selectedIds = <<>>
  /\ isGameOver = FALSE
  /\ timeLeft = TIME_LIMIT
  /\ isPaused = FALSE
  /\ intervals = 0
  /\ shakes = <<>>
  /\ nextId = 1
  /\ rng = 0
  /\ games = 0
  /\ run = [ticks |-> 0, calls |-> 0, total |-> 0]
  /\ ev = [kind |-> "construct", id |-> 0, outcome |-> "none", n |-> 0,
           inject |-> "none"]

\* initGame(selectedMode): the two menu buttons (mode is null), and Reset and
\* Try Again (initGame(mode!)).
InitGame(m) ==
  /\ mode = "none" \/ mode = m
  /\ games < MaxGames
  /\ \E t \in getRandomTarget, s \in Seeds :
       Commit(Evaluate([Snapshot EXCEPT !.grid = InitGrid(nextId, s),
                                        !.score = 0,
                                        !.target = t,
                                        !.selectedIds = <<>>,
                                        !.isGameOver = FALSE,
                                        !.mode = m,
                                        !.timeLeft = TIME_LIMIT,
                                        !.rng = s,
                                        !.game = games + 1,
                                        !.nextId = nextId + INITIAL_ROWS * GRID_COLS],
                       t, s),
              FALSE, "init", 0)

\* The clicks of the player the model enumerates: on the cells of ClickCells,
\* within the bounds above.
ClickCells == { <<GRID_ROWS - 1, 0>>, <<GRID_ROWS - 1, 1>> }

Clickable(b) ==
  /\ <<b.row, b.col>> \in ClickCells
  /\ ~(isGameOver \/ isPaused) =>
       /\ Includes(selectedIds, b.id) \/ Len(selectedIds) < MaxSel
       /\ mode = "time" =>
            /\ timeLeft <= ClickWindow
            /\ score < MaxTimedScore
            /\ \/ Level(grid) <= INITIAL_ROWS + EarlyRows
               \/ Level(grid) >= GRID_ROWS - LateRows

\* handleBlockClick as it would be without the isGameOver test.
handleBlockClick_NoGuard(sel, id, over, paused) ==
  IF paused THEN sel ELSE ToggleIds(sel, id)

\* handleBlockClick(id): the early return, else the updater of selectedIds.
handleBlockClick(sel, id, over, paused) ==
  IF over \/ paused THEN sel ELSE ToggleIds(sel, id)

\* A click on a rendered block: handleBlockClick, then the effect when
\* setSelectedIds was called.
Toggle(b) ==
  /\ mode # "none"
  /\ Clickable(b)
  /\ LET sel == handleBlockClick(selectedIds, b.id, isGameOver, isPaused)
         st == [Snapshot EXCEPT !.selectedIds = sel]
     IN IF sel = selectedIds
        THEN Commit(st, isPaused, "toggle", b.id)
        ELSE \E t \in Draws(st) : Commit(Evaluate(st, t, rng), isPaused, "toggle", b.id)

\* The callback as it would be if it let timeLeft reach 0 before adding a row.
TickExpired_AtZero(prev) == prev <= 0

\* The callback as it would be if it added a row one tick early.
TickExpired_AtTwo(prev) == prev <= 2

\* The interval callback: setTimeLeft(prev => prev <= 1 ? (addRow(), TIME_LIMIT)
\* : prev - 1).  addRow also sets timeLeft to TIME_LIMIT in time mode.  The
\* effect runs again only when addRow returned a new grid.
TickExpired(prev) == prev <= 1

Tick ==
  /\ intervals > 0
  /\ IF TickExpired(timeLeft)
     THEN \E ar \in {AddRow(grid, nextId, rng)} :
          \E st \in {[Snapshot EXCEPT !.grid = ar.grid,
                                     !.isGameOver = @ \/ ar.over,
                                     !.nextId = ar.nextId,
                                     !.timeLeft = TIME_LIMIT,
                                     !.inject = IF ar.over THEN "overflow" ELSE "ok"]} :
             IF ar.over THEN Commit(st, isPaused, "tick", 0)
             ELSE \E t \in Draws(st) : Commit(Evaluate(st, t, rng), isPaused, "tick", 0)
     ELSE Commit([Snapshot EXCEPT !.timeLeft = timeLeft - 1], isPaused, "tick", 0)

\* The Pause/Resume button: setIsPaused(!isPaused).
TogglePause ==
  /\ mode # "none"
  /\ Commit(Snapshot, ~isPaused, "pause", 0)

\* The Menu buttons: setMode(null); mode is a dependency of the effect.
Menu ==
  /\ mode # "none"
  /\ LET st == [Snapshot EXCEPT !.mode = "none"]
     IN \E t \in Draws(st) : Commit(Evaluate(st, t, rng), isPaused, "menu", 0)

\* The timeout callback as it would be if it did nothing while paused.
ClearSelection_UnlessPaused ==
  /\ shakes # <<>>
  /\ ~isPaused
  /\ LET st == [Snapshot EXCEPT !.selectedIds = <<>>, !.shakes = Tail(shakes)]
     IN \E t \in Draws(st) : Commit(Evaluate(st, t, rng), isPaused, "clear", 0)

\* An overshoot timeout fires: setSelectedIds([]), then the effect (sum = 0).
ClearSelection ==
  /\ shakes # <<>>
  /\ LET st == [Snapshot EXCEPT !.selectedIds = <<>>, !.shakes = Tail(shakes)]
     IN \E t \in Draws(st) : Commit(Evaluate(st, t, rng), isPaused, "clear", 0)

Next ==
  \/ \E m \in {"classic", "time"} : InitGame(m)
  \/ \E b \in BlocksOf(grid) : Toggle(b)
  \/ Tick
  \/ TogglePause
  \/ Menu
  \/ ClearSelection

Spec == Init /\ [][Next]_vars

\* The timers fire.  setInterval(..., 1000) calls its callback every second
\* for as long as the interval lives, whatever else is handled in between:
\* Tick is taken again and again while it is again and again possible.
\* setTimeout(..., 400) calls its callback once its delay has passed.
FairSpec == Spec /\ SF_vars(Tick) /\ WF_vars(ClearSelection)

\* ------------------------------------------- applyGravity on arbitrary grids
\* The grids applyGravity is given: any set P of occupied rows in column 0,
\* and in column c the rows of P from c * k on, moved by c * k.  Every block
\* has its own id, a value of VALUE_MIN..VALUE_MAX and the row and col of its
\* cell.
ColumnRows(P, c, k) == { (r + c * k) % GRID_ROWS : r \in { q \in P : q >= c * k } }

GravityInput(P, k) ==
  [r \in Rows |-> [c \in Cols |->
     IF r \in ColumnRows(P, c, k)
     THEN Block(r * GRID_COLS + c + 1,
                VALUE_MIN + ((r + c) % (VALUE_MAX - VALUE_MIN + 1)), r, c)
     ELSE Null]]

GravInit ==
  /\ \E P \in SUBSET Rows, k \in 0 .. GravShift : grid = GravityInput(P, k)
  /\ mode = "none"
  /\ score = 0
  /\ target = 0
  /\ selectedIds = <<>>
  /\ isGameOver = FALSE
  /\ timeLeft = TIME_LIMIT
  /\ isPaused = FALSE
  /\ intervals = 0
  /\ shakes = <<>>
  /\ nextId = GRID_ROWS * GRID_COLS + 1
  /\ rng = 0
  /\ games = 0
  /\ run = [ticks |-> 0, calls |-> 0, total |-> 0]
  /\ ev = [kind |-> "construct", id |-> 0, outcome |-> "none", n |-> 0,
           inject |-> "none"]

\* const { newGrid, changed } = applyGravity(grid): ev records changed and
\* the number of applications so far.
ApplyGravity ==
  /\ ev.n < MaxApply
  /\ LET res == applyGravity(grid)
     IN /\ grid' = res.newGrid
        /\ ev' = [kind |-> "gravity", id |-> 0,
                  outcome |-> IF res.changed THEN "changed" ELSE "unchanged",
                  n |-> ev.n + 1, inject |-> "none"]
  /\ UNCHANGED <<mode, score, target, selectedIds, isGameOver, timeLeft,
                 isPaused, intervals, shakes, nextId, rng, games, run>>

GravNext == ApplyGravity

GravSpec == GravInit /\ [][GravNext]_vars

\* =================================================================== claims
\* What a step was, read off the two states.
InitStep == games' # games
PauseStep == games' = games /\ isPaused' # isPaused
Did(kind) == ~PauseStep /\ ev'.kind = kind

\* A click the handler did not return early from, and the selection it set.
LiveToggle == Did("toggle") /\ ~(isGameOver \/ isPaused)
Toggled == ToggleIds(selectedIds, ev'.id)

\* The step called addRow, and the grid it called it on: the current grid for
\* the interval callback, the grid after removal and gravity for a match.
CalledAddRow == ~PauseStep /\ ev'.inject # "none"
InvokedOn ==
  IF ev'.kind = "tick" THEN grid
  ELSE applyGravity(RemoveSelected(grid, Toggled)).newGrid

\* C1: after start, every occupied cell (r,c) of the 10 x 6 grid stores a
\* block with row = r and col = c, and no two occupied cells hold the same id.
C1_GridConsistent ==
  games >= 1 =>
    /\ DOMAIN grid = 0 .. 9
    /\ \A r \in DOMAIN grid : DOMAIN grid[r] = 0 .. 5
    /\ \A r \in DOMAIN grid, c \in 0 .. 5 :
         grid[r][c] # Null =>
           /\ grid[r][c].row = r /\ grid[r][c].col = c
           /\ \A r2 \in DOMAIN grid, c2 \in 0 .. 5 :
                (grid[r2][c2] # Null /\ grid[r2][c2].id = grid[r][c].id)
                  => (r2 = r /\ c2 = c)

\* C1's case: a classic match has removed blocks, gravity has moved the ones
\* above them and addRow has shifted every row and filled the bottom one.
C1_Witness ==
  /\ mode = "classic" /\ ev.kind = "toggle" /\ ev.outcome = "match"
  /\ ev.inject = "ok" /\ score >= 40

\* C2: score is never negative; outside initGame it never decreases, and it
\* changes only in a step that made a match, by 10 x the blocks that step
\* removed from the grid.
C2_ScoreByMatch ==
  [][ /\ score >= 0 /\ score' >= 0
      /\ ~InitStep =>
           /\ score' >= score
           /\ score' # score =>
                /\ LiveToggle /\ ev'.outcome = "match"
                /\ score' - score = 10 * Cardinality(IdsOf(grid) \ IdsOf(grid'))
                /\ IdsOf(grid) \ IdsOf(grid') # {} ]_vars

\* C2's case: a match of three blocks has taken the score from 0 to 30.
C2_Witness == ev.outcome = "match" /\ ev.n = 3 /\ score = 30

\* C3: addRow called while the top row holds a block leaves the grid exactly
\* as it was called on (no shift, no new block, no id drawn) and sets
\* isGameOver.
C3_OverflowNoMutation ==
  [][ (CalledAddRow /\ TopRowOccupied(InvokedOn)) =>
        /\ grid' = InvokedOn
        /\ nextId' = nextId
        /\ isGameOver'
        /\ ev'.inject = "overflow" ]_vars

\* C3's case: the interval callback called addRow on a full grid.
C3_Witness == ev.kind = "tick" /\ ev.inject = "overflow" /\ isGameOver /\ mode = "time"

\* C4: addRow called while the top row is empty moves the block of (r+1,c) to
\* (r,c) for every r in 0..8 (same id and value, row = r), fills row 9 with
\* new blocks of new ids and values in 1..9, loses no block, and does not set
\* isGameOver.
C4_ShiftAndFill ==
  [][ (CalledAddRow /\ ~TopRowOccupied(InvokedOn)) =>
        LET g == InvokedOn IN
        /\ \A r \in 0 .. 8, c \in 0 .. 5 :
             IF g[r + 1][c] = Null THEN grid'[r][c] = Null
             ELSE /\ grid'[r][c].id = g[r + 1][c].id
                  /\ grid'[r][c].value = g[r + 1][c].value
                  /\ grid'[r][c].row = r
                  /\ grid'[r][c].col = c
        /\ \A c \in 0 .. 5 :
             /\ grid'[9][c] # Null
             /\ grid'[9][c].id \notin IdsOf(grid)
             /\ grid'[9][c].id >= nextId
             /\ grid'[9][c].value \in 1 .. 9
             /\ grid'[9][c].row = 9 /\ grid'[9][c].col = c
        /\ IdsOf(g) \subseteq IdsOf(grid')
        /\ ~isGameOver'
        /\ ev'.inject = "ok" ]_vars

\* C4's case: the interval callback injected a row under a selected block.
C4_Witness ==
  /\ ev.kind = "tick" /\ ev.inject = "ok" /\ selectedIds # <<>>
  /\ \E b \in BlocksOf(grid) : Includes(selectedIds, b.id) /\ b.row = 8

\* C5: a click that makes the selected blocks present in the grid sum to
\* target removes exactly those n blocks, leaves every column without a gap
\* and its surviving blocks in their order, adds 10 x n to score, draws a
\* target in 10..25 and empties the selection.
C5_Match ==
  [][ (LiveToggle /\ SumValues(SelectedBlocks(grid, Toggled)) = target) =>
        LET matched == SelectedBlocks(grid, Toggled)
            gone == { b.id : b \in matched }
        IN
        /\ IdsOf(grid) \ IdsOf(grid') = gone
        /\ \A r \in 0 .. 8, c \in 0 .. 5 : grid'[r][c] # Null => grid'[r + 1][c] # Null
        /\ \A c \in 0 .. 5, r1 \in 0 .. 9, r2 \in 0 .. 9 :
             (/\ r1 < r2
              /\ grid[r1][c] # Null /\ grid[r1][c].id \notin gone
              /\ grid[r2][c] # Null /\ grid[r2][c].id \notin gone)
               => \E q1 \in 0 .. 9, q2 \in 0 .. 9 :
                    /\ q1 < q2
                    /\ grid'[q1][c].id = grid[r1][c].id
                    /\ grid'[q2][c].id = grid[r2][c].id
        /\ \A c \in 0 .. 5, r \in 0 .. 9 :
             (grid[r][c] # Null /\ grid[r][c].id \notin gone)
               => \E q \in 0 .. 9 : /\ grid'[q][c].id = grid[r][c].id
                                     /\ grid'[q][c].value = grid[r][c].value
        /\ score' = score + 10 * Cardinality(matched)
        /\ target' \in 10 .. 25
        /\ selectedIds' = <<>> ]_vars

\* C5's case: a match of three blocks from two rows, the blocks above them
\* having fallen.
C5_Witness ==
  /\ ev.outcome = "match" /\ ev.n = 3 /\ selectedIds = <<>> /\ mode = "time"

\* A pending overshoot timeout fired.
ClearStep == Did("clear") /\ shakes # <<>>

\* The selected blocks present in the grid sum strictly between 0 and target.
PartialSum(sel) ==
  LET sum == SumValues(SelectedBlocks(grid, sel))
  IN 0 < sum /\ sum < target

\* C6 as stated: when the delay of an overshoot detected in this game fires,
\* the selection becomes empty and the grid and the score are those of the
\* moment of detection, whatever happened in between.
C6_AsStated ==
  [][ (ClearStep /\ Head(shakes).game = games) =>
        /\ selectedIds' = <<>>
        /\ grid' = Head(shakes).grid
        /\ score' = Head(shakes).score ]_vars

\* C6 (amended): evaluation that finds the selected sum greater than target
\* schedules one delayed clear and leaves the selection in place; when the
\* delay fires the selection becomes empty and that step changes neither
\* grid, score nor target; grid and score equal those of the moment of
\* detection when no event occurred during the window.
C6_Overshoot ==
  [][ /\ (~PauseStep /\ ev'.outcome = "overshoot") =>
           /\ Len(shakes') = Len(shakes) + 1
           /\ shakes'[Len(shakes')].grid = grid'
           /\ shakes'[Len(shakes')].score = score'
           /\ selectedIds' # <<>>
           /\ SumValues(SelectedBlocks(grid', selectedIds')) > target'
           /\ score' = score
      /\ ClearStep =>
           /\ selectedIds' = <<>>
           /\ grid' = grid /\ score' = score /\ target' = target
           /\ shakes' = Tail(shakes)
           /\ (Head(shakes).age = 0 /\ Head(shakes).game = games) =>
                (grid' = Head(shakes).grid /\ score' = Head(shakes).score) ]_vars

\* C6's case: in a timed game the delay of an overshoot has fired after a
\* tick injected a row.
C6_Witness ==
  /\ ev.kind = "clear" /\ mode = "time" /\ ~isGameOver
  /\ Level(grid) = INITIAL_ROWS + 1 /\ selectedIds = <<>>

\* C7 as stated: a selection whose sum is strictly between 0 and target is
\* changed by nothing but a toggle (or a new game).
C7_AsStated ==
  [][ (PartialSum(selectedIds) /\ ~InitStep /\ ~LiveToggle) =>
        selectedIds' = selectedIds ]_vars

\* C7 (amended): evaluating a selection whose sum is strictly between 0 and
\* target changes neither grid, score nor target and schedules no clear, and
\* the selection persists; such a selection is changed only by a toggle, a
\* new game, or the delayed clear of an overshoot detected earlier.
C7_Partial ==
  [][ /\ (LiveToggle /\ PartialSum(Toggled)) =>
           /\ selectedIds' = Toggled
           /\ grid' = grid /\ score' = score /\ target' = target
           /\ isGameOver' = isGameOver
           /\ Len(shakes') = Len(shakes)
      /\ (PartialSum(selectedIds) /\ ~InitStep /\ ~LiveToggle /\ ~ClearStep) =>
           /\ selectedIds' = selectedIds
           /\ score' = score /\ target' = target
           /\ Len(shakes') = Len(shakes) ]_vars

\* C7's case: a second toggle has left a selection of two blocks whose sum is
\* still below target.
C7_Witness ==
  /\ ev.kind = "toggle" /\ ev.outcome = "partial" /\ Len(selectedIds) = 2
  /\ PartialSum(selectedIds)

\* The click makes a match.
MatchStep == LiveToggle /\ SumValues(SelectedBlocks(grid, Toggled)) = target

C9_TenTicks ==
  mode = "time" =>
    /\ run.ticks \in 0 .. 10
    /\ run.ticks < 10 => (run.calls = 0 /\ timeLeft = 10 - run.ticks)
    /\ run.ticks = 10 => (run.calls = 1 /\ timeLeft = 10)

\* C9's case: the tenth tick has injected a row.
C9_Witness ==
  /\ mode = "time" /\ run.ticks = 10 /\ run.calls = 1
  /\ ev.kind = "tick" /\ ev.inject = "ok" /\ timeLeft = 10

\* C10: once isGameOver holds, every step other than initGame keeps it and
\* changes neither score, grid nor timeLeft.
C10_TerminalLock ==
  [][ (isGameOver /\ ~InitStep) =>
        /\ isGameOver'
        /\ score' = score
        /\ grid' = grid
        /\ timeLeft' = timeLeft ]_vars

\* C10's case: a delayed clear has fired on a game that is over.
C10_Witness == isGameOver /\ ev.kind = "clear" /\ mode # "none"

\* C11: applyGravity applied to its own result returns the same grid (same
\* block in every cell, with the same id, value, row and col) and reports
\* changed = false.
C11_GravityIdempotent ==
  [][ (ev.kind = "gravity" /\ ev'.kind = "gravity") =>
        (grid' = grid /\ ev'.outcome = "unchanged") ]_vars

\* C11's case: applyGravity has been applied a second time, to a grid that
\* holds blocks in columns of different heights.
C11_Witness ==
  /\ ev.kind = "gravity" /\ ev.n = 2
  /\ grid[GRID_ROWS - 1][0] # Null /\ grid[GRID_ROWS - 3][0] # Null
  /\ \E c \in Cols : grid[GRID_ROWS - 1][c] = Null

\* The blocks of column c of g, from the top row down.
ColumnBlocks(g, c) ==
  SelectSeq([i \in 1 .. GRID_ROWS |-> g[i - 1][c]], LAMBDA b : b # Null)

\* C16: applyGravity returns, in every column, the column's blocks in the
\* same top-to-bottom order, in the bottom cells of the column with every
\* cell above them empty, each with row equal to its cell's row and with id,
\* value and col unchanged; changed is true exactly when a block moved.
C16_GravityPacks ==
  [][ ev'.kind = "gravity" =>
        /\ \A c \in 0 .. 5 :
             LET blocks == ColumnBlocks(grid, c)
                 top == 10 - Len(blocks)
             IN \A r \in 0 .. 9 :
                  grid'[r][c] = IF r < top THEN Null
                                ELSE [blocks[r - top + 1] EXCEPT !.row = r]
        /\ (ev'.outcome = "changed") <=>
             (\E r \in 0 .. 9, c \in 0 .. 5 :
                grid[r][c] # Null /\ grid'[r][c] # grid[r][c]) ]_vars

\* C16's case: applyGravity has moved blocks, leaving a column of at least
\* three blocks and a column of exactly one.
C16_Witness ==
  /\ ev.kind = "gravity" /\ ev.n = 1 /\ ev.outcome = "changed"
  /\ grid[GRID_ROWS - 3][0] # Null
  /\ \E c \in Cols : grid[GRID_ROWS - 1][c] # Null /\ grid[GRID_ROWS - 2][c] = Null

\* C12: initGame, from any state, yields a 10 x 6 grid whose rows 6..9 are
\* filled with new blocks (new, distinct ids, value in 1..9, row and col of
\* their cell) and whose rows 0..5 are empty, score = 0, target in 10..25, an
\* empty selection, timeLeft = 10, isGameOver = false, isPaused = false and
\* mode the requested mode, which for Reset and Try Again is the current one.
C12_InitGame ==
  [][ InitStep =>
        /\ DOMAIN grid' = 0 .. 9
        /\ \A r \in 0 .. 9 : DOMAIN grid'[r] = 0 .. 5
        /\ \A r \in 0 .. 5, c \in 0 .. 5 : grid'[r][c] = Null
        /\ \A r \in 6 .. 9, c \in 0 .. 5 :
             /\ grid'[r][c] # Null
             /\ grid'[r][c].value \in 1 .. 9
             /\ grid'[r][c].row = r /\ grid'[r][c].col = c
             /\ grid'[r][c].id \notin IdsOf(grid)
             /\ grid'[r][c].id >= nextId
        /\ Cardinality(IdsOf(grid')) = 24
        /\ score' = 0
        /\ target' \in 10 .. 25
        /\ selectedIds' = <<>>
        /\ timeLeft' = 10
        /\ ~isGameOver'
        /\ ~isPaused'
        /\ mode' \in {"classic", "time"}
        /\ mode # "none" => mode' = mode ]_vars

\* C12's case: a second game has been started over a first game that had
\* filled the grid, while an overshoot timeout of the first was pending.
C12_Witness ==
  /\ ev.kind = "init" /\ games = 2 /\ shakes # <<>>
  /\ nextId >= 1 + 2 * INITIAL_ROWS * GRID_COLS + (GRID_ROWS - INITIAL_ROWS) * GRID_COLS

\* C13: the pause button changes isPaused and neither isGameOver, grid, score
\* nor target; while isPaused holds no step other than initGame changes
\* timeLeft or the grid or counts as a tick, and a click leaves the selection
\* as it is.
C13_Pause ==
  [][ /\ PauseStep =>
           /\ isPaused' = ~isPaused
           /\ isGameOver' = isGameOver
           /\ grid' = grid /\ score' = score /\ target' = target
           /\ timeLeft' = timeLeft /\ selectedIds' = selectedIds
      /\ (isPaused /\ ~InitStep) =>
           /\ timeLeft' = timeLeft
           /\ grid' = grid /\ nextId' = nextId
           /\ run' = run
           /\ ~Did("tick")
      /\ (isPaused /\ Did("toggle")) => selectedIds' = selectedIds ]_vars

\* C13's case: a timed game is paused part way through a countdown, with a
\* selection in place, and a click has been ignored.
C13_Witness ==
  /\ isPaused /\ ~isGameOver /\ mode = "time" /\ intervals = 0
  /\ ev.kind = "toggle" /\ ev.outcome = "none"
  /\ timeLeft < TIME_LIMIT /\ selectedIds # <<>>

\* The ids in a selection.
IdSet(sel) == { sel[i] : i \in 1 .. Len(sel) }

\* C14: a click while the game is over or paused leaves the selection as it
\* is; otherwise it flips the membership of the clicked id (absent: appended
\* at the end, present: removed) and of no other id, the others keeping their
\* order, so that two clicks on the same id in a row give back the same set
\* of selected ids.  (A click whose evaluation is a match also empties the
\* selection in the same step.)
C14_Toggle ==
  [][ Did("toggle") =>
        LET id == ev'.id
            old == IdSet(selectedIds)
        IN IF isGameOver \/ isPaused
           THEN selectedIds' = selectedIds
           ELSE /\ ev'.outcome # "match" =>
                     /\ id \in old =>
                          /\ IdSet(selectedIds') = old \ {id}
                          /\ selectedIds' = SelectSeq(selectedIds, LAMBDA i : i # id)
                     /\ id \notin old =>
                          /\ IdSet(selectedIds') = old \cup {id}
                          /\ selectedIds' = selectedIds \o <<id>>
                     /\ Len(selectedIds') = Cardinality(IdSet(selectedIds'))
                /\ IdSet(handleBlockClick(
                           handleBlockClick(selectedIds, id, isGameOver, isPaused),
                           id, isGameOver, isPaused)) = old ]_vars

\* C14's case: a click has removed its id from a selection of two, leaving
\* the other one selected.
C14_Witness ==
  /\ ev.kind = "toggle" /\ ev.outcome = "partial" /\ Len(selectedIds) = 1
  /\ ev.id \notin IdSet(selectedIds)

C17_UnconditionalClear ==
  /\ [](shakes # <<>> => ENABLED ClearSelection)
  /\ [][ /\ ClearStep =>
              /\ selectedIds' = <<>>
              /\ isPaused' = isPaused /\ isGameOver' = isGameOver
         /\ (LiveToggle /\ shakes # <<>>) =>
              /\ selectedIds' # selectedIds
              /\ ev'.outcome # "match" => selectedIds' = Toggled
              /\ SumValues(SelectedBlocks(grid', selectedIds'))
                   # SumValues(SelectedBlocks(grid, selectedIds)) ]_vars

\* C17's case: an overshoot timeout is pending while the game is paused and
\* a click during the window has left a partial selection.
C17_Witness ==
  /\ shakes # <<>> /\ isPaused /\ ev.kind = "toggle" /\ ev.outcome = "partial"
  /\ PartialSum(selectedIds)

\* C18: in every state at most one interval is live, and one is live exactly
\* when mode is time, isGameOver is false and isPaused is false; so a tick
\* happens only in such a state, never in classic mode, while paused, after
\* game over or in the menu.
C18_SingleTimer ==
  /\ [](/\ intervals \in {0, 1}
        /\ intervals = 1 <=> (mode = "time" /\ ~isGameOver /\ ~isPaused))
  /\ [][ Did("tick") => (mode = "time" /\ ~isGameOver /\ ~isPaused) ]_vars

\* C18's case: in a second game, a timed one, the interval has ticked and has
\* then been cleared by a pause.
C18_Witness ==
  /\ games = 2 /\ mode = "time" /\ isPaused /\ ~isGameOver
  /\ intervals = 0 /\ run.ticks >= 1 /\ ev.kind = "tick"

\* C19: in every state after initGame no block has an empty cell directly
\* beneath it: in each column the occupied cells are one run of cells ending
\* at row 9.
C19_GravitySettled ==
  games >= 1 =>
    \A c \in 0 .. 5, r \in 0 .. 8 : grid[r][c] # Null => grid[r + 1][c] # Null

\* C19's case: a match on a grid that rows had raised has left columns of
\* different heights.
C19_Witness ==
  /\ ev.outcome = "match" /\ Level(grid) > INITIAL_ROWS + 1
  /\ \E c \in Cols : grid[GRID_ROWS - Level(grid)][c] = Null
  /\ \E c \in Cols : grid[GRID_ROWS - Level(grid) + 1][c] = Null

\* C20: timeLeft is an integer of 1..10 in every state; a tick at timeLeft = 1
\* calls addRow (which adds a row unless the top row is occupied) and leaves
\* timeLeft at 10, any other tick lowers it by one, so 0 is never reached; in
\* classic mode no step other than initGame changes timeLeft.
C20_TimeLeftRange ==
  /\ [](timeLeft \in 1 .. 10)
  /\ [][ /\ (Did("tick") /\ timeLeft = 1) =>
              (timeLeft' = 10 /\ ev'.inject # "none")
         /\ (Did("tick") /\ timeLeft > 1) =>
              (timeLeft' = timeLeft - 1 /\ ev'.inject = "none" /\ grid' = grid)
         /\ (mode = "classic" /\ ~InitStep) => timeLeft' = timeLeft ]_vars

\* C20's case: a timed game has counted down to 1 twice and each time the
\* tick has added a row and set timeLeft to 10.
C20_Witness ==
  /\ mode = "time" /\ ev.kind = "tick" /\ ev.inject = "ok"
  /\ timeLeft = TIME_LIMIT /\ Level(grid) = INITIAL_ROWS + 2

\* The number of the tick that finds the top row occupied in a game without
\* a match: one row is injected every TIME_LIMIT ticks, onto INITIAL_ROWS rows.
OverflowTick == TIME_LIMIT * (GRID_ROWS - INITIAL_ROWS + 1)

\* Every cell of the rows from r down holds a block, and no cell above does.
FilledFrom(g, r) ==
  \A q \in Rows, c \in Cols : (g[q][c] # Null) <=> (q >= r)

\* C21: in a timed game without a match (score = 0), the ticks since initGame
\* number at most 70; every tenth tick up to the 60th injects a row, so that
\* after k injections the rows from GRID_ROWS - INITIAL_ROWS - k down are
\* full and after the sixth the grid is full up to row 0; the 70th tick
\* reports overflow, leaves the grid as it is and sets isGameOver, and the
\* game is over at no other tick.  With the timers firing, every timed game
\* reaches isGameOver unless a match, a pause, a reset (initGame) or the menu
\* comes first.
C21_TimedOverflow ==
  /\ []((mode = "time" /\ score = 0) =>
          /\ run.total \in 0 .. OverflowTick
          /\ isGameOver <=> run.total = OverflowTick
          /\ LET k == IF isGameOver THEN GRID_ROWS - INITIAL_ROWS
                      ELSE run.total \div TIME_LIMIT
             IN FilledFrom(grid, GRID_ROWS - INITIAL_ROWS - k))
  /\ [][ (Did("tick") /\ score = 0 /\ score' = 0) =>
          /\ run'.total = run.total + 1
          /\ (run'.total % TIME_LIMIT # 0) =>
               (ev'.inject = "none" /\ grid' = grid /\ ~isGameOver')
          /\ (run'.total % TIME_LIMIT = 0 /\ run'.total < OverflowTick) =>
               /\ ev'.inject = "ok" /\ ~isGameOver'
               /\ Level(grid') = Level(grid) + 1
               /\ run'.total = GRID_ROWS * TIME_LIMIT - INITIAL_ROWS * TIME_LIMIT
                    => TopRowOccupied(grid')
          /\ run'.total = OverflowTick =>
               (ev'.inject = "overflow" /\ grid' = grid /\ isGameOver') ]_vars
  /\ \A g \in 1 .. RowGames :
       (mode = "time" /\ games = g /\ score = 0)
         ~> (isGameOver \/ score > 0 \/ isPaused \/ mode # "time" \/ games # g)

\* C21's case: the 70th tick of a timed game without a match has found the
\* grid full, reported overflow and ended the game.
C21_Witness ==
  /\ mode = "time" /\ score = 0 /\ isGameOver /\ ~isPaused
  /\ run.total = OverflowTick /\ ev.kind = "tick" /\ ev.inject = "overflow"
  /\ FilledFrom(grid, 0)
====
